---- MODULE Spec2Model ----
(***************************************************************************)
(* The DELETE query writer of src/lib/writer/delete.ts.                    *)
(*                                                                         *)
(* A DeleteQueryWriter is an object wrapping one private state object.     *)
(* The model keeps every writer the caller has been handed (writers), the  *)
(* heap of returnFields arrays those states point to (arrays: the spread   *)
(* `...this.#state` copies the reference, not the array), the call that    *)
(* made each writer (calls) and the outcome of the latest call (result).   *)
(* Strings are sequences of one-character strings, so that concatenation,  *)
(* join, toUpperCase and template rendering are computed, never assumed.   *)
(***************************************************************************)
EXTENDS Integers, Sequences, FiniteSets, TLC

VARIABLES writers, arrays, calls, result

vars == <<writers, arrays, calls, result>>

\* How many writer objects one run creates.
MaxWriters == 3

-----------------------------------------------------------------------------
\* Text

kwDELETE == <<"D", "E", "L", "E", "T", "E", " ">>
kwWHERE == <<" ", "W", "H", "E", "R", "E", " ">>
kwRETURN == <<" ", "R", "E", "T", "U", "R", "N", " ">>
kwTIMEOUT == <<" ", "T", "I", "M", "E", "O", "U", "T", " ">>
kwPARALLEL == <<" ", "P", "A", "R", "A", "L", "L", "E", "L">>
sComma == <<",", " ">>
sFields == <<"f", "i", "e", "l", "d", "s">>
sBefore == <<"b", "e", "f", "o", "r", "e">>
sAfter == <<"a", "f", "t", "e", "r">>
sNone == <<"n", "o", "n", "e">>
sPerson == <<"p", "e", "r", "s", "o", "n">>
sDog == <<"d", "o", "g">>
sKnows == <<"k", "n", "o", "w", "s">>
sOne == <<"1">>
sP1 == <<"p", "e", "r", "s", "o", "n", ":", "1">>
sP2 == <<"p", "e", "r", "s", "o", "n", ":", "2">>
sName == <<"n", "a", "m", "e">>
sAge == <<"a", "g", "e">>
sIn == <<"i", "n">>
sOut == <<"o", "u", "t">>
sNaN == <<"N", "a", "N">>
sAnd == <<" ", "A", "N", "D", " ">>
sEq == <<"=">>
sAdult == <<"a", "g", "e", " ", ">", " ", "1", "8">>
sIsBob == <<"n", "a", "m", "e", " ", "=", " ", "'", "B", "o", "b", "'">>
sAlice == <<"'", "A", "l", "i", "c", "e", "'">>
lowerCase == <<"a", "b", "c", "d", "e", "f", "g", "h", "i", "j", "k", "l", "m",
               "n", "o", "p", "q", "r", "s", "t", "u", "v", "w", "x", "y", "z">>
upperCase == <<"A", "B", "C", "D", "E", "F", "G", "H", "I", "J", "K", "L", "M",
               "N", "O", "P", "Q", "R", "S", "T", "U", "V", "W", "X", "Y", "Z">>
digitChars == <<"0", "1", "2", "3", "4", "5", "6", "7", "8", "9">>

\* Array.prototype.join: the texts of list with glue between neighbours.
RECURSIVE join(_, _)
join(list, glue) ==
    IF list = <<>> THEN <<>>
    ELSE IF Len(list) = 1 THEN list[1]
    ELSE list[1] \o glue \o join(Tail(list), glue)

upperChar(c) ==
    IF \E i \in 1..Len(lowerCase) : lowerCase[i] = c
    THEN upperCase[CHOOSE i \in 1..Len(lowerCase) : lowerCase[i] = c]
    ELSE c

\* String.prototype.toUpperCase
toUpperCase(text) == [i \in 1..Len(text) |-> upperChar(text[i])]

RECURSIVE natText(_)
natText(n) ==
    IF n < 10 THEN <<digitChars[n + 1]>>
    ELSE natText(n \div 10) \o <<digitChars[(n % 10) + 1]>>

-----------------------------------------------------------------------------
\* JavaScript values: k is the kind, n a number, s a string, o an object's
\* or array's entries.

Val(k, n, s, o) == [k |-> k, n |-> n, s |-> s, o |-> o]
Undefined == Val("undefined", 0, <<>>, <<>>)
Null == Val("null", 0, <<>>, <<>>)
NaN == Val("nan", 0, <<>>, <<>>)
Num(n) == Val("number", n, <<>>, <<>>)
Str(s) == Val("string", 0, s, <<>>)
Arr(items) == Val("array", 0, <<>>, items)
Obj(entries) == Val("object", 0, <<>>, entries)

\* ToBoolean, as `if (x)` and `!x` apply it.
truthy(v) ==
    CASE v.k = "undefined" -> FALSE
      [] v.k = "null" -> FALSE
      [] v.k = "nan" -> FALSE
      [] v.k = "number" -> v.n # 0
      [] v.k = "string" -> v.s # <<>>
      [] OTHER -> TRUE

\* The text a template literal `${v}` puts for a number.
numberText(v) ==
    CASE v.k = "nan" -> sNaN
      [] v.k = "number" /\ v.n < 0 -> <<"-">> \o natText(0 - v.n)
      [] OTHER -> natText(v.n)

-----------------------------------------------------------------------------
\* The helpers delete.ts imports (../helpers, ./parser, ../sql/operators, zod).

\* eq(value): the operator and value of an equality test.
eq(value) == [op |-> sEq, val |-> value]

\* One entry of a Where object: a field name and the operator on it.
entry(key, test) == [key |-> key, op |-> test.op, val |-> test.val]

\* parseWhereClause(where): the tests of the object, joined by AND.
parseWhereClause(w) ==
    join([i \in 1..Len(w.o) |->
            w.o[i].key \o <<" ">> \o w.o[i].op \o <<" ">> \o w.o[i].val],
         sAnd)

\* isListLike(...values): some value is an array.
isListLike(values) == \E i \in 1..Len(values) : values[i].k = "array"

\* useSurrealValueUnsafe(value): a string as it is, a number in decimal.
useSurrealValueUnsafe(value) ==
    IF value.k = "string" THEN value.s ELSE numberText(value)

\* Whether text is table:id with both parts non-empty.
isRecordLink(text) ==
    \E i \in 2..(Len(text) - 1) : text[i] = ":"

\* assertRecordLink(value) returns the link, or throws when it is none.
assertRecordLink(text) == text

\* thing(table, id)
thing(tb, id) == tb \o <<":">> \o id

getRelationFrom(relation) == relation.from

getRelationTo(relation) == relation.to

\* z.object(shape) and z.any()
zObject(shape) == Val("zobject", 0, <<>>, shape.o)

zAny == Val("zany", 0, <<>>, <<>>)

-----------------------------------------------------------------------------
\* Memory: mem.writers holds the #state of every DeleteQueryWriter object,
\* mem.arrays every returnFields array; a state's returnFields field is the
\* address of its array.  A call's outcome is the memory after it and either
\* the value returned (a writer's address, or a query text) or the class of
\* the exception thrown.

Returned(mem, v) == [mem |-> mem, threw |-> FALSE, err |-> "", val |-> v]

ThrownRef(mem, class) == [mem |-> mem, threw |-> TRUE, err |-> class, val |-> 0]

ThrownText(mem, class) ==
    [mem |-> mem, threw |-> TRUE, err |-> class, val |-> <<>>]

\* new DeleteQueryWriter(state)
construct(mem, state) ==
    Returned([mem EXCEPT !.writers = Append(@, state)], Len(mem.writers) + 1)

\* An array literal or a rest parameter: a new array holding items.
newArray(mem, items) == [mem EXCEPT !.arrays = Append(@, items)]

-----------------------------------------------------------------------------
\* DeleteQueryWriter.  this is the address of the receiver.

\* with() taking the new schema as a reason to start the return clause over.
withResetsReturn(mem, this, schema) ==
    construct(mem, [mem.writers[this] EXCEPT !.schema = schema,
                                             !.returnMode = Str(sBefore)])

with(mem, this, schema) ==
    construct(mem, [mem.writers[this] EXCEPT !.schema = schema])

withSchema(mem, this, shape) == with(mem, this, zObject(shape))

withAny(mem, this) == with(mem, this, zAny)

\* where() without the delRelation guard.
whereUnguarded(mem, this, w) ==
    construct(mem, [mem.writers[this] EXCEPT
        !.where = IF w.k = "object" THEN Str(parseWhereClause(w)) ELSE w])

\* where() adding its filter to the one the receiver has.
whereCombines(mem, this, w) ==
    IF mem.writers[this].unrelate
    THEN ThrownRef(mem, "CirqlWriterError")
    ELSE LET text == IF w.k = "object" THEN parseWhereClause(w) ELSE w.s
             had == mem.writers[this].where
         IN construct(mem, [mem.writers[this] EXCEPT
                !.where = IF truthy(had) THEN Str(had.s \o sAnd \o text)
                          ELSE Str(text)])

\* where() putting a literal text in parentheses.
whereParenthesised(mem, this, w) ==
    IF mem.writers[this].unrelate
    THEN ThrownRef(mem, "CirqlWriterError")
    ELSE construct(mem, [mem.writers[this] EXCEPT
            !.where = IF w.k = "object" THEN Str(parseWhereClause(w))
                      ELSE Str(<<"(">> \o w.s \o <<")">>)])

where(mem, this, w) ==
    IF mem.writers[this].unrelate
    THEN ThrownRef(mem, "CirqlWriterError")
    ELSE construct(mem, [mem.writers[this] EXCEPT
            !.where = IF w.k = "object" THEN Str(parseWhereClause(w)) ELSE w])

\* return() starting the field list over with a new, empty array.
returnClearsFields(mem, this, mode) ==
    construct(newArray(mem, <<>>),
              [mem.writers[this] EXCEPT !.returnMode = mode,
                                        !.returnFields = Len(mem.arrays) + 1])

return(mem, this, mode) ==
    construct(mem, [mem.writers[this] EXCEPT !.returnMode = mode])

\* returnFields() leaving the return mode as it was.
returnFieldsKeepsMode(mem, this, fields) ==
    construct(newArray(mem, fields),
              [mem.writers[this] EXCEPT !.returnFields = Len(mem.arrays) + 1])

\* returnFields() refilling the receiver's array instead of keeping the new one.
returnFieldsInPlace(mem, this, fields) ==
    construct([mem EXCEPT !.arrays[mem.writers[this].returnFields] = fields],
              [mem.writers[this] EXCEPT !.returnMode = Str(sFields)])

returnFields(mem, this, fields) ==
    construct(newArray(mem, fields),
              [mem.writers[this] EXCEPT !.returnMode = Str(sFields),
                                        !.returnFields = Len(mem.arrays) + 1])

\* timeout() building its state without the receiver's parallel flag.
timeoutDropsParallel(mem, this, t) ==
    construct(mem, [mem.writers[this] EXCEPT !.timeout = t,
                                             !.parallel = FALSE])

timeout(mem, this, t) ==
    construct(mem, [mem.writers[this] EXCEPT !.timeout = t])

\* parallel() building its state without the receiver's timeout.
parallelDropsTimeout(mem, this) ==
    construct(mem, [mem.writers[this] EXCEPT !.parallel = TRUE,
                                             !.timeout = Undefined])

parallel(mem, this) ==
    construct(mem, [mem.writers[this] EXCEPT !.parallel = TRUE])

\* toQuery() appending TIMEOUT whenever a timeout was set, zero included.
toQueryTimeoutDefined(mem, this) ==
    LET state == mem.writers[this] IN
    IF state.targets = <<>>
    THEN ThrownText(mem, "Error")
    ELSE Returned(mem,
           kwDELETE \o state.targets
        \o (IF truthy(state.where) THEN kwWHERE \o state.where.s ELSE <<>>)
        \o (IF state.returnMode = Str(sFields)
            THEN kwRETURN \o join(mem.arrays[state.returnFields], sComma)
            ELSE IF truthy(state.returnMode)
                 THEN kwRETURN \o toUpperCase(state.returnMode.s)
                 ELSE <<>>)
        \o (IF state.timeout # Undefined
            THEN kwTIMEOUT \o numberText(state.timeout) \o <<"s">>
            ELSE <<>>)
        \o (IF state.parallel THEN kwPARALLEL ELSE <<>>))

\* toQuery() appending PARALLEL before TIMEOUT.
toQueryParallelFirst(mem, this) ==
    LET state == mem.writers[this] IN
    IF state.targets = <<>>
    THEN ThrownText(mem, "Error")
    ELSE Returned(mem,
           kwDELETE \o state.targets
        \o (IF truthy(state.where) THEN kwWHERE \o state.where.s ELSE <<>>)
        \o (IF state.returnMode = Str(sFields)
            THEN kwRETURN \o join(mem.arrays[state.returnFields], sComma)
            ELSE IF truthy(state.returnMode)
                 THEN kwRETURN \o toUpperCase(state.returnMode.s)
                 ELSE <<>>)
        \o (IF state.parallel THEN kwPARALLEL ELSE <<>>)
        \o (IF truthy(state.timeout)
            THEN kwTIMEOUT \o numberText(state.timeout) \o <<"s">>
            ELSE <<>>))

\* toQuery() leaving the RETURN clause out when there is no field to name.
toQuerySkipsNoFields(mem, this) ==
    LET state == mem.writers[this] IN
    IF state.targets = <<>>
    THEN ThrownText(mem, "Error")
    ELSE Returned(mem,
           kwDELETE \o state.targets
        \o (IF truthy(state.where) THEN kwWHERE \o state.where.s ELSE <<>>)
        \o (IF state.returnMode = Str(sFields)
            THEN (IF mem.arrays[state.returnFields] = <<>> THEN <<>>
                  ELSE kwRETURN \o join(mem.arrays[state.returnFields], sComma))
            ELSE IF truthy(state.returnMode)
                 THEN kwRETURN \o toUpperCase(state.returnMode.s)
                 ELSE <<>>)
        \o (IF truthy(state.timeout)
            THEN kwTIMEOUT \o numberText(state.timeout) \o <<"s">>
            ELSE <<>>)
        \o (IF state.parallel THEN kwPARALLEL ELSE <<>>))

\* toQuery() without the check of the targets.
toQueryUnchecked(mem, this) ==
    LET state == mem.writers[this] IN
    Returned(mem,
           kwDELETE \o state.targets
        \o (IF truthy(state.where) THEN kwWHERE \o state.where.s ELSE <<>>)
        \o (IF state.returnMode = Str(sFields)
            THEN kwRETURN \o join(mem.arrays[state.returnFields], sComma)
            ELSE IF truthy(state.returnMode)
                 THEN kwRETURN \o toUpperCase(state.returnMode.s)
                 ELSE <<>>)
        \o (IF truthy(state.timeout)
            THEN kwTIMEOUT \o numberText(state.timeout) \o <<"s">>
            ELSE <<>>)
        \o (IF state.parallel THEN kwPARALLEL ELSE <<>>))

toQuery(mem, this) ==
    LET state == mem.writers[this] IN
    IF state.targets = <<>>
    THEN ThrownText(mem, "Error")
    ELSE Returned(mem,
           kwDELETE \o state.targets
        \o (IF truthy(state.where) THEN kwWHERE \o state.where.s ELSE <<>>)
        \o (IF state.returnMode = Str(sFields)
            THEN kwRETURN \o join(mem.arrays[state.returnFields], sComma)
            ELSE IF truthy(state.returnMode)
                 THEN kwRETURN \o toUpperCase(state.returnMode.s)
                 ELSE <<>>)
        \o (IF truthy(state.timeout)
            THEN kwTIMEOUT \o numberText(state.timeout) \o <<"s">>
            ELSE <<>>)
        \o (IF state.parallel THEN kwPARALLEL ELSE <<>>))

\* get _state: a frozen object holding a copy of each field of #state; the
\* copy of returnFields is the reference to the same array.
_state(mem, this) == Returned(mem, mem.writers[this])

\* snapshot[field] = value, snapshot a frozen object: the object stays as it
\* is; strict code gets a TypeError, other code gets no sign of it.
assign(mem, snapshot, field, value, strict) ==
    IF strict THEN ThrownRef(mem, "TypeError") ELSE Returned(mem, value)

\* Array.prototype.push on the array at address ref: Object.freeze has not
\* frozen it.
push(mem, ref, text) ==
    Returned([mem EXCEPT !.arrays[ref] = Append(@, text)],
             Len(mem.arrays[ref]) + 1)

-----------------------------------------------------------------------------
\* The factories.

\* del() without the list-like check.
delNoListCheck(mem, targets) ==
    IF Len(targets) = 0
    THEN ThrownRef(mem, "CirqlWriterError")
    ELSE construct(newArray(mem, <<>>), [
        schema |-> Null,
        quantity |-> "many",
        targets |-> join([i \in 1..Len(targets) |->
                            useSurrealValueUnsafe(targets[i])], sComma),
        where |-> Undefined,
        returnMode |-> Str(sBefore),
        returnFields |-> Len(mem.arrays) + 1,
        timeout |-> Undefined,
        parallel |-> FALSE,
        unrelate |-> FALSE])

del(mem, targets) ==
    IF Len(targets) = 0
    THEN ThrownRef(mem, "CirqlWriterError")
    ELSE IF isListLike(targets)
    THEN ThrownRef(mem, "CirqlWriterError")
    ELSE construct(newArray(mem, <<>>), [
        schema |-> Null,
        quantity |-> "many",
        targets |-> join([i \in 1..Len(targets) |->
                            useSurrealValueUnsafe(targets[i])], sComma),
        where |-> Undefined,
        returnMode |-> Str(sBefore),
        returnFields |-> Len(mem.arrays) + 1,
        timeout |-> Undefined,
        parallel |-> FALSE,
        unrelate |-> FALSE])

\* delRecord() starting with return mode 'after'.
delRecordReturnsAfter(mem, recordOrTable, id) ==
    IF id = Undefined /\ ~isRecordLink(recordOrTable.s)
    THEN ThrownRef(mem, "Error")
    ELSE construct(newArray(mem, <<>>), [
        schema |-> Null,
        quantity |-> "maybe",
        targets |-> IF id = Undefined
                    THEN assertRecordLink(recordOrTable.s)
                    ELSE thing(recordOrTable.s, id.s),
        where |-> Undefined,
        returnMode |-> Str(sAfter),
        returnFields |-> Len(mem.arrays) + 1,
        timeout |-> Undefined,
        parallel |-> FALSE,
        unrelate |-> FALSE])

delRecord(mem, recordOrTable, id) ==
    IF id = Undefined /\ ~isRecordLink(recordOrTable.s)
    THEN ThrownRef(mem, "Error")
    ELSE construct(newArray(mem, <<>>), [
        schema |-> Null,
        quantity |-> "maybe",
        targets |-> IF id = Undefined
                    THEN assertRecordLink(recordOrTable.s)
                    ELSE thing(recordOrTable.s, id.s),
        where |-> Undefined,
        returnMode |-> Str(sBefore),
        returnFields |-> Len(mem.arrays) + 1,
        timeout |-> Undefined,
        parallel |-> FALSE,
        unrelate |-> FALSE])

\* delRelation() leaving the writer open to where().
delRelationUnlocked(mem, relation) ==
    construct(newArray(mem, <<>>), [
        schema |-> Null,
        quantity |-> "maybe",
        targets |-> relation.edge,
        where |-> Str(parseWhereClause(Obj(<<
                    entry(sIn, eq(getRelationFrom(relation))),
                    entry(sOut, eq(getRelationTo(relation)))>>))),
        returnMode |-> Str(sBefore),
        returnFields |-> Len(mem.arrays) + 1,
        timeout |-> Undefined,
        parallel |-> FALSE,
        unrelate |-> FALSE])

delRelation(mem, relation) ==
    construct(newArray(mem, <<>>), [
        schema |-> Null,
        quantity |-> "maybe",
        targets |-> relation.edge,
        where |-> Str(parseWhereClause(Obj(<<
                    entry(sIn, eq(getRelationFrom(relation))),
                    entry(sOut, eq(getRelationTo(relation)))>>))),
        returnMode |-> Str(sBefore),
        returnFields |-> Len(mem.arrays) + 1,
        timeout |-> Undefined,
        parallel |-> FALSE,
        unrelate |-> TRUE])

-----------------------------------------------------------------------------
\* The arguments the caller passes.

DelArgs ==
    { <<>>,
      <<Str(sPerson)>>,
      <<Str(sPerson), Str(sDog)>>,
      <<Str(<<>>)>>,
      <<Arr(<<Str(sPerson), Str(sDog)>>)>>,
      <<Str(sPerson), Arr(<<>>)>> }

RecordArgs ==
    { <<Str(sP1), Undefined>>,
      <<Str(sPerson), Undefined>>,
      <<Str(sPerson), Str(sOne)>> }

Relations ==
    { [edge |-> sKnows, from |-> sP1, to |-> sP2],
      [edge |-> <<>>, from |-> sP1, to |-> sP2] }

Schemas == { Val("zstring", 0, <<>>, <<>>) }

Shapes == { Obj(<<entry(sName, [op |-> <<>>, val |-> <<>>])>>) }

WhereArgs ==
    { Str(sAdult), Str(sIsBob), Str(<<>>),
      Obj(<<entry(sName, eq(sAlice))>>) }

ReturnModes == { Str(sNone), Str(sBefore), Str(sAfter) }

FieldLists == { <<>>, <<sName>>, <<sName, sAge>>, <<sName, sName>> }

Timeouts == { Num(0), Num(5), Num(30), NaN }

-----------------------------------------------------------------------------
\* The caller's calls.

NoResult ==
    [op |-> "", recv |-> 0, args |-> <<>>, threw |-> FALSE, err |-> "",
     made |-> 0, text |-> <<>>]

Init ==
    /\ writers = <<>>
    /\ arrays = <<>>
    /\ calls = <<>>
    /\ result = NoResult

Memory == [writers |-> writers, arrays |-> arrays]

\* A call that answers with a writer (or throws): the memory goes on as the
\* call left it; the writers it constructed are logged with the call.
Commit(op, recv, args, outcome) ==
    /\ writers' = outcome.mem.writers
    /\ arrays' = outcome.mem.arrays
    /\ calls' = calls \o [k \in 1..(Len(outcome.mem.writers) - Len(writers))
                            |-> [op |-> op, recv |-> recv, args |-> args]]
    /\ result' = [op |-> op, recv |-> recv, args |-> args,
                  threw |-> outcome.threw, err |-> outcome.err,
                  made |-> outcome.val, text |-> <<>>]

\* The run has room for the writers the call constructs.
Room(outcome) == Len(outcome.mem.writers) <= MaxWriters

CallDel(targets) ==
    LET outcome == del(Memory, targets) IN
    /\ Room(outcome)
    /\ Commit("del", 0, targets, outcome)

CallDelRecord(a) ==
    LET outcome == delRecord(Memory, a[1], a[2]) IN
    /\ Room(outcome)
    /\ Commit("delRecord", 0, a, outcome)

CallDelRelation(relation) ==
    LET outcome == delRelation(Memory, relation) IN
    /\ Room(outcome)
    /\ Commit("delRelation", 0,
              <<Str(relation.edge), Str(relation.from), Str(relation.to)>>,
              outcome)

CallWith(i, schema) ==
    LET outcome == with(Memory, i, schema) IN
    /\ Room(outcome)
    /\ Commit("with", i, <<schema>>, outcome)

CallWithSchema(i, shape) ==
    LET outcome == withSchema(Memory, i, shape) IN
    /\ Room(outcome)
    /\ Commit("withSchema", i, <<shape>>, outcome)

CallWithAny(i) ==
    LET outcome == withAny(Memory, i) IN
    /\ Room(outcome)
    /\ Commit("withAny", i, <<>>, outcome)

CallWhere(i, w) ==
    LET outcome == where(Memory, i, w) IN
    /\ Room(outcome)
    /\ Commit("where", i, <<w>>, outcome)

CallReturn(i, mode) ==
    LET outcome == return(Memory, i, mode) IN
    /\ Room(outcome)
    /\ Commit("return", i, <<mode>>, outcome)

CallReturnFields(i, fields) ==
    LET outcome == returnFields(Memory, i, fields) IN
    /\ Room(outcome)
    /\ Commit("returnFields", i, [k \in 1..Len(fields) |-> Str(fields[k])],
              outcome)

CallTimeout(i, t) ==
    LET outcome == timeout(Memory, i, t) IN
    /\ Room(outcome)
    /\ Commit("timeout", i, <<t>>, outcome)

CallParallel(i) ==
    LET outcome == parallel(Memory, i) IN
    /\ Room(outcome)
    /\ Commit("parallel", i, <<>>, outcome)

CallToQuery(i) ==
    LET outcome == toQuery(Memory, i) IN
    /\ writers' = outcome.mem.writers
    /\ arrays' = outcome.mem.arrays
    /\ calls' = calls
    /\ result' = [op |-> "toQuery", recv |-> i, args |-> <<>>,
                  threw |-> outcome.threw, err |-> outcome.err, made |-> 0,
                  text |-> outcome.val]

Next ==
    \/ \E targets \in DelArgs : CallDel(targets)
    \/ \E a \in RecordArgs : CallDelRecord(a)
    \/ \E relation \in Relations : CallDelRelation(relation)
    \/ \E i \in 1..Len(writers), schema \in Schemas : CallWith(i, schema)
    \/ \E i \in 1..Len(writers), shape \in Shapes : CallWithSchema(i, shape)
    \/ \E i \in 1..Len(writers) : CallWithAny(i)
    \/ \E i \in 1..Len(writers), w \in WhereArgs : CallWhere(i, w)
    \/ \E i \in 1..Len(writers), mode \in ReturnModes : CallReturn(i, mode)
    \/ \E i \in 1..Len(writers), fields \in FieldLists :
            CallReturnFields(i, fields)
    \/ \E i \in 1..Len(writers), t \in Timeouts : CallTimeout(i, t)
    \/ \E i \in 1..Len(writers) : CallParallel(i)
    \/ \E i \in 1..Len(writers) : CallToQuery(i)

Spec == Init /\ [][Next]_vars

\* The caller also reads _state and writes through what it returns.

\* How long the caller's pushes make an array.
MaxFields == 2

\* The outcome of a write through a snapshot: no writer is made.
Written(op, recv, args, outcome) ==
    /\ writers' = outcome.mem.writers
    /\ arrays' = outcome.mem.arrays
    /\ calls' = calls
    /\ result' = [op |-> op, recv |-> recv, args |-> args,
                  threw |-> outcome.threw, err |-> outcome.err, made |-> 0,
                  text |-> <<>>]

\* w._state.timeout = t
AssignTimeout(i, t, strict) ==
    LET snapshot == _state(Memory, i).val IN
    Written("_state.timeout=", i, <<t>>,
            assign(Memory, snapshot, "timeout", t, strict))

\* w._state.returnFields.push(text)
PushReturnFields(i, text) ==
    LET snapshot == _state(Memory, i).val IN
    /\ Len(arrays[snapshot.returnFields]) < MaxFields
    /\ Written("_state.returnFields.push", i, <<Str(text)>>,
               push(Memory, snapshot.returnFields, text))

\* The caller of Next, each call with one choice of arguments, who also
\* writes through snapshots.
SnapshotNext ==
    \/ CallDel(<<Str(sPerson)>>)
    \/ CallDelRecord(<<Str(sPerson), Str(sOne)>>)
    \/ \E relation \in Relations : relation.edge # <<>>
                                    /\ CallDelRelation(relation)
    \/ \E i \in 1..Len(writers), schema \in Schemas : CallWith(i, schema)
    \/ \E i \in 1..Len(writers), shape \in Shapes : CallWithSchema(i, shape)
    \/ \E i \in 1..Len(writers) : CallWithAny(i)
    \/ \E i \in 1..Len(writers) : CallWhere(i, Str(sAdult))
    \/ \E i \in 1..Len(writers) : CallReturn(i, Str(sAfter))
    \/ \E i \in 1..Len(writers) : CallReturnFields(i, <<sName>>)
    \/ \E i \in 1..Len(writers) : CallTimeout(i, Num(5))
    \/ \E i \in 1..Len(writers) : CallParallel(i)
    \/ \E i \in 1..Len(writers) : CallToQuery(i)
    \/ \E i \in 1..Len(writers), strict \in BOOLEAN :
            AssignTimeout(i, Num(30), strict)
    \/ \E i \in 1..Len(writers) : PushReturnFields(i, sAge)

SnapshotSpec == Init /\ [][SnapshotNext]_vars

-----------------------------------------------------------------------------
\* What the properties speak of: the chain of calls that made a writer, the
\* outcome of rendering it, and the clauses of a rendered text.

RECURSIVE PathOf(_)
PathOf(i) ==
    IF calls[i].recv = 0 THEN <<calls[i]>>
    ELSE Append(PathOf(calls[i].recv), calls[i])

FactoryOf(i) == PathOf(i)[1].op

Outcome(o) == <<o.threw, o.err, o.val>>

QueryOf(mem, i) == Outcome(toQuery(mem, i))

Occ(q, kw) ==
    { p \in 1..(Len(q) - Len(kw) + 1) : SubSeq(q, p, p + Len(kw) - 1) = kw }

Contains(q, kw) == Occ(q, kw) # {}

EmptyMemory == [writers |-> <<>>, arrays |-> <<>>]

\* One logged call made again, on receiver this of memory mem.
Again(mem, this, c) ==
    CASE c.op = "del" -> del(mem, c.args)
      [] c.op = "delRecord" -> delRecord(mem, c.args[1], c.args[2])
      [] c.op = "delRelation" ->
            delRelation(mem, [edge |-> c.args[1].s, from |-> c.args[2].s,
                              to |-> c.args[3].s])
      [] c.op = "with" -> with(mem, this, c.args[1])
      [] c.op = "withSchema" -> withSchema(mem, this, c.args[1])
      [] c.op = "withAny" -> withAny(mem, this)
      [] c.op = "where" -> where(mem, this, c.args[1])
      [] c.op = "return" -> return(mem, this, c.args[1])
      [] c.op = "returnFields" ->
            returnFields(mem, this, [k \in 1..Len(c.args) |-> c.args[k].s])
      [] c.op = "timeout" -> timeout(mem, this, c.args[1])
      [] c.op = "parallel" -> parallel(mem, this)

\* A chain of calls made alone, in a memory that holds nothing else.
RECURSIVE Alone(_)
Alone(path) ==
    IF Len(path) = 1 THEN Again(EmptyMemory, 0, path[1])
    ELSE LET before == Alone(SubSeq(path, 1, Len(path) - 1)) IN
         Again(before.mem, before.val, path[Len(path)])

QueryAlone(path) == LET o == Alone(path) IN QueryOf(o.mem, o.val)

NoCall == [op |-> "", recv |-> 0, args |-> <<>>]

\* The latest call of path whose operation is one of ops, or NoCall.
Last(path, ops) ==
    LET at == { k \in 1..Len(path) : path[k].op \in ops } IN
    IF at = {} THEN NoCall
    ELSE path[CHOOSE k \in at : \A m \in at : m <= k]

\* Call a comes before call b somewhere in path.
Before(path, a, b) ==
    \E k, m \in 1..Len(path) : k < m /\ path[k].op = a /\ path[m].op = b

-----------------------------------------------------------------------------
\* C1 (filter lock): on every writer that descends from delRelation through
\* any chain of configuration calls, where() with a string or a structured
\* predicate throws a CirqlWriterError and constructs no writer.
C1_FilterLock ==
    /\ (result.op = "where" /\ FactoryOf(result.recv) = "delRelation")
          => (result.threw /\ result.err = "CirqlWriterError"
              /\ result.made = 0)
    /\ \A i \in 1..Len(writers), w \in WhereArgs :
          FactoryOf(i) = "delRelation" =>
              LET o == where(Memory, i, w) IN
              o.threw /\ o.err = "CirqlWriterError" /\ o.mem = Memory
    /\ \A j \in 1..Len(writers) :
          calls[j].op = "where" => FactoryOf(j) # "delRelation"

\* A structured where() has just failed on a relation writer two
\* configuration calls away from delRelation.
C1_Witness ==
    /\ result.op = "where" /\ result.threw
    /\ result.args[1].k = "object"
    /\ Len(PathOf(result.recv)) = 3
    /\ FactoryOf(result.recv) = "delRelation"

\* The text q is DELETE and the targets, then nothing but clauses: each of
\* WHERE, RETURN, TIMEOUT, PARALLEL at most once, in that order.
ClausesInOrder(q, targets) ==
    LET head == kwDELETE \o targets
        w == Occ(q, kwWHERE)
        r == Occ(q, kwRETURN)
        t == Occ(q, kwTIMEOUT)
        p == Occ(q, kwPARALLEL)
    IN /\ Len(q) >= Len(head)
       /\ SubSeq(q, 1, Len(head)) = head
       /\ Len(q) > Len(head) => Len(head) + 1 \in (w \cup r \cup t \cup p)
       /\ \A a \in (w \cup r \cup t \cup p) : a > Len(head)
       /\ Cardinality(w) <= 1 /\ Cardinality(r) <= 1
       /\ Cardinality(t) <= 1 /\ Cardinality(p) <= 1
       /\ \A a \in w, b \in (r \cup t \cup p) : a < b
       /\ \A a \in r, b \in (t \cup p) : a < b
       /\ \A a \in t, b \in p : a < b

\* Which clauses the chain of calls path asks for.
AsksWhere(path) ==
    LET c == Last(path, {"where"}) IN
    IF c.op = "" THEN path[1].op = "delRelation" ELSE c.args[1] # Str(<<>>)

AsksTimeout(path) ==
    LET c == Last(path, {"timeout"}) IN
    c.op # "" /\ c.args[1].k = "number" /\ c.args[1].n # 0

AsksParallel(path) == Last(path, {"parallel"}).op # ""

\* C2 (clause ordering): whatever the order of the where, return,
\* returnFields, timeout and parallel calls that built a writer, its query
\* (toQuery's precondition, non-empty targets, given) is DELETE and the
\* targets followed by the clauses the calls ask for, each at most once and
\* in the order WHERE, RETURN, TIMEOUT, PARALLEL.
C2_ClauseOrdering ==
    \A i \in 1..Len(writers) :
        writers[i].targets # <<>> =>
            LET o == toQuery(Memory, i) IN
            /\ ~o.threw
            /\ ClausesInOrder(o.val, writers[i].targets)
            /\ Contains(o.val, kwWHERE) <=> AsksWhere(PathOf(i))
            /\ Contains(o.val, kwRETURN)
            /\ Contains(o.val, kwTIMEOUT) <=> AsksTimeout(PathOf(i))
            /\ Contains(o.val, kwPARALLEL) <=> AsksParallel(PathOf(i))

\* A writer with all four clauses whose parallel() call came before its
\* timeout() call has been rendered.
C2_Witness ==
    /\ result.op = "toQuery" /\ ~result.threw
    /\ Before(PathOf(result.recv), "parallel", "timeout")
    /\ Contains(result.text, kwWHERE) /\ Contains(result.text, kwRETURN)
    /\ Contains(result.text, kwTIMEOUT) /\ Contains(result.text, kwPARALLEL)

\* No call changes a writer that exists, nor what it renders.
Frozen ==
    \A i \in 1..Len(writers) :
        /\ i <= Len(writers')
        /\ writers'[i] = writers[i]
        /\ QueryOf([writers |-> writers', arrays |-> arrays'], i)
              = QueryOf(Memory, i)

\* A writer renders what its own chain of calls renders when no other writer
\* was ever made.
Isolated ==
    \A i \in 1..Len(writers) : QueryOf(Memory, i) = QueryAlone(PathOf(i))

\* C3 (immutability under branching): a configuration call on writer S
\* changes no field of S nor of any other writer, so each renders the same
\* text before and after; and every writer, whatever chains were branched
\* from its ancestors and in whatever interleaving, renders exactly what its
\* own chain renders alone.
C3_Immutable == [](Isolated) /\ [][Frozen]_vars

\* Two chains were branched from the first writer, rendering differently,
\* and the first writer has then been rendered.
C3_Witness ==
    /\ Len(writers) = 3
    /\ calls[2].recv = 1 /\ calls[3].recv = 1
    /\ QueryOf(Memory, 2) # QueryOf(Memory, 3)
    /\ QueryOf(Memory, 2) # QueryOf(Memory, 1)
    /\ QueryOf(Memory, 3) # QueryOf(Memory, 1)
    /\ result.op = "toQuery" /\ result.recv = 1 /\ ~result.threw

\* return(mode), timeout(t) and parallel() applied to writer i in each of the
\* six orders: what the six resulting writers render.
SixOrders(i, mode, t) ==
    LET R(o) == return(o.mem, o.val, mode)
        T(o) == timeout(o.mem, o.val, t)
        P(o) == parallel(o.mem, o.val)
        Q(o) == QueryOf(o.mem, o.val)
        s == Returned(Memory, i)
    IN << Q(P(T(R(s)))), Q(T(P(R(s)))), Q(P(R(T(s)))),
          Q(R(P(T(s)))), Q(T(R(P(s)))), Q(R(T(P(s)))) >>

\* The writer the latest call returned, if it returned one.  Every writer is
\* this writer in the state it was made in.
JustMade == { i \in 1..Len(writers) : result.made = i }

\* C4 (order independence): from any writer (taken as a call returns it),
\* return(mode), timeout(t) and parallel() applied once each, in any of the
\* six orders, give writers whose toQuery() answers are identical.
C4_OrderIndependent ==
    \A i \in JustMade, mode \in ReturnModes, t \in Timeouts :
        LET six == SixOrders(i, mode, t) IN
        \A k \in 2..6 : six[k] = six[1]

\* parallel() and then timeout(t), t non-zero, were called on a writer; with
\* return('after') called last the chain renders what return, timeout,
\* parallel in that order render from the same writer: all three clauses.
C4_Witness ==
    /\ Len(writers) = 3
    /\ calls[2].op = "parallel" /\ calls[2].recv = 1
    /\ calls[3].op = "timeout" /\ calls[3].recv = 2
    /\ calls[3].args[1].k = "number" /\ calls[3].args[1].n # 0
    /\ LET last == return(Memory, 3, Str(sAfter))
           q == QueryOf(last.mem, last.val)
       IN /\ q = SixOrders(1, Str(sAfter), calls[3].args[1])[1]
          /\ ~q[1]
          /\ Contains(q[3], kwRETURN \o <<"A", "F", "T", "E", "R">>)
          /\ Contains(q[3], kwTIMEOUT) /\ Contains(q[3], kwPARALLEL)

\* The texts of list with ", " between neighbours, built from the right.
RECURSIVE Listed(_)
Listed(list) ==
    IF Len(list) = 0 THEN <<>>
    ELSE IF Len(list) = 1 THEN list[1]
    ELSE Listed(SubSeq(list, 1, Len(list) - 1)) \o <<",", " ">>
            \o list[Len(list)]

sReturnBefore ==
    <<" ", "R", "E", "T", "U", "R", "N", " ", "B", "E", "F", "O", "R", "E">>

sDeletePersonDog ==
    <<"D", "E", "L", "E", "T", "E", " ", "p", "e", "r", "s", "o", "n", ",",
      " ", "d", "o", "g", " ", "R", "E", "T", "U", "R", "N", " ", "B", "E",
      "F", "O", "R", "E">>

\* C5 (factory defaults): a writer as del(t1..tn), n >= 1, delRecord or
\* delRelation return it has returnMode 'before', no timeout and parallel
\* false; its query (toQuery's precondition, non-empty targets, given) is
\* DELETE and the targets, then WHERE and the filter for delRelation only,
\* then RETURN BEFORE, with neither TIMEOUT nor PARALLEL; for del the targets
\* are the arguments' texts joined by ", " in argument order.
C5_FactoryDefaults ==
    \A i \in 1..Len(writers) :
        calls[i].recv = 0 =>
            /\ writers[i].returnMode = Str(sBefore)
            /\ writers[i].timeout = Undefined
            /\ writers[i].parallel = FALSE
            /\ calls[i].op = "del" =>
                  /\ Len(calls[i].args) >= 1
                  /\ writers[i].targets
                        = Listed([k \in 1..Len(calls[i].args) |->
                                    useSurrealValueUnsafe(calls[i].args[k])])
            /\ writers[i].targets # <<>> =>
                  LET o == toQuery(Memory, i) IN
                  /\ ~o.threw
                  /\ o.val = kwDELETE \o writers[i].targets
                        \o (IF calls[i].op = "delRelation"
                            THEN kwWHERE \o writers[i].where.s ELSE <<>>)
                        \o sReturnBefore
                  /\ calls[i].op = "delRelation" => writers[i].where.s # <<>>
                  /\ ~Contains(o.val, kwTIMEOUT)
                  /\ ~Contains(o.val, kwPARALLEL)

\* del("person", "dog") has been rendered, as it came from the factory:
\* "DELETE person, dog RETURN BEFORE".
C5_Witness ==
    /\ result.op = "toQuery" /\ ~result.threw
    /\ calls[result.recv].op = "del"
    /\ Len(calls[result.recv].args) = 2
    /\ result.text = sDeletePersonDog

\* C6 (del argument guard): del() with no target, and del with a target
\* that is list-like, throw a CirqlWriterError and construct no writer; del
\* with one target or more, none list-like, returns a writer.
C6_DelGuard ==
    /\ result.op = "del" =>
          LET bad == \/ Len(result.args) = 0
                     \/ \E k \in 1..Len(result.args) :
                            result.args[k].k = "array"
          IN /\ result.threw <=> bad
             /\ result.threw => (result.err = "CirqlWriterError"
                                 /\ result.made = 0)
             /\ ~result.threw => (/\ result.made = Len(writers)
                                  /\ calls[result.made].op = "del"
                                  /\ calls[result.made].args = result.args)
    /\ \A targets \in DelArgs :
          LET o == del(Memory, targets) IN
          o.threw => (o.mem = Memory /\ o.err = "CirqlWriterError")
    /\ \A i \in 1..Len(writers) :
          calls[i].op = "del" =>
              /\ Len(calls[i].args) > 0
              /\ \A k \in 1..Len(calls[i].args) : calls[i].args[k].k # "array"

\* del has just failed on two targets, the second of them list-like, after
\* del had returned writers for one target and for two.
C6_Witness ==
    /\ result.op = "del" /\ result.threw
    /\ Len(result.args) = 2 /\ result.args[2].k = "array"
    /\ \E i, j \in 1..Len(writers) :
          /\ calls[i].op = "del" /\ Len(calls[i].args) = 1
          /\ calls[j].op = "del" /\ Len(calls[j].args) = 2

\* C7 (render precondition), as claimed: toQuery() on a writer whose targets
\* text is empty throws a CirqlWriterError and returns no text; on a writer
\* whose targets text is not empty it does not throw.
C7_RenderPrecondition ==
    /\ \A i \in 1..Len(writers) :
          LET o == toQuery(Memory, i) IN
          IF writers[i].targets = <<>>
          THEN o.threw /\ o.err = "CirqlWriterError" /\ o.val = <<>>
          ELSE ~o.threw
    /\ result.op = "toQuery" =>
          IF writers[result.recv].targets = <<>>
          THEN result.threw /\ result.err = "CirqlWriterError"
          ELSE ~result.threw

\* The chain path without its with, withSchema and withAny calls.
WithoutValidators(path) ==
    SelectSeq(path, LAMBDA c : c.op \notin {"with", "withSchema", "withAny"})

\* The state at address ref of memory mem, its schema left out and its
\* returnFields array taken by content.
Unvalidated(mem, ref) ==
    [mem.writers[ref] EXCEPT !.schema = Null,
                             !.returnFields = mem.arrays[@]]

\* C8 (validator attachment is inert for rendering): a writer renders what
\* its chain renders with every with/withSchema/withAny call taken out, so
\* two chains that differ only in such calls, at any positions, render the
\* same; of the state only the schema differs.
C8_ValidatorInert ==
    \A i \in 1..Len(writers) :
        LET bare == Alone(WithoutValidators(PathOf(i))) IN
        /\ QueryOf(Memory, i) = QueryOf(bare.mem, bare.val)
        /\ Unvalidated(Memory, i) = Unvalidated(bare.mem, bare.val)

\* A writer made by a validator call between a factory and another
\* configuration call has been rendered, and carries the validator.
C8_Witness ==
    /\ result.op = "toQuery" /\ ~result.threw
    /\ Len(PathOf(result.recv)) = 3
    /\ PathOf(result.recv)[2].op \in {"with", "withSchema"}
    /\ PathOf(result.recv)[3].op \in {"returnFields", "where", "timeout"}
    /\ writers[result.recv].schema # Null
    /\ result.text # QueryAlone(SubSeq(PathOf(result.recv), 1, 1))[3]

\* The number a run of digits writes; -1 if text is no run of digits.
RECURSIVE DigitsValue(_)
DigitsValue(text) ==
    IF Len(text) = 0 THEN -1
    ELSE LET last == text[Len(text)]
             at == { d \in 1..10 : digitChars[d] = last }
         IN IF at = {} THEN -1
            ELSE IF Len(text) = 1 THEN (CHOOSE d \in at : TRUE) - 1
            ELSE LET front == DigitsValue(SubSeq(text, 1, Len(text) - 1)) IN
                 IF front < 0 THEN -1
                 ELSE 10 * front + (CHOOSE d \in at : TRUE) - 1

\* The text q has exactly one TIMEOUT clause, and it reads " TIMEOUT <n>s".
TimeoutClause(q, n) ==
    /\ Cardinality(Occ(q, kwTIMEOUT)) = 1
    /\ LET from == (CHOOSE p \in Occ(q, kwTIMEOUT) : TRUE) + Len(kwTIMEOUT)
           ends == { e \in from..Len(q) : q[e] = "s" }
       IN /\ ends # {}
          /\ LET e == CHOOSE x \in ends : \A y \in ends : x <= y IN
             /\ DigitsValue(SubSeq(q, from, e - 1)) = n
             /\ n >= 0

\* The chain path without its timeout calls.
WithoutTimeouts(path) == SelectSeq(path, LAMBDA c : c.op # "timeout")

\* The latest timeout call of writer i's chain.
LastTimeout(i) == Last(PathOf(i), {"timeout"})

\* A writer whose latest timeout call was timeout(0) renders what its chain
\* renders with no timeout call at all.
ZeroIsUnset ==
    \A i \in 1..Len(writers) :
        (LastTimeout(i).op # "" /\ LastTimeout(i).args[1] = Num(0)) =>
            QueryOf(Memory, i) = QueryAlone(WithoutTimeouts(PathOf(i)))

\* C9 (timeout zero), as claimed: after timeout(0) a writer renders as if no
\* timeout had ever been set, and after timeout(n) with any n other than
\* zero it renders the clause " TIMEOUT <n>s".
C9_AsClaimed ==
    /\ ZeroIsUnset
    /\ \A i \in 1..Len(writers) :
          (/\ LastTimeout(i).op # ""
           /\ LastTimeout(i).args[1] # Num(0)
           /\ writers[i].targets # <<>>) =>
              LET o == toQuery(Memory, i) IN
              /\ ~o.threw
              /\ Contains(o.val, kwTIMEOUT
                    \o numberText(LastTimeout(i).args[1]) \o <<"s">>)

\* C9 (timeout zero), amended: after timeout(0) a writer renders as if no
\* timeout had ever been set, also when an earlier call had set one; after
\* timeout(n) with n a number other than zero and other than NaN it renders
\* the clause " TIMEOUT <n>s" (toQuery's precondition given); after
\* timeout(NaN) it renders, as after timeout(0), with no TIMEOUT clause.
C9_TimeoutZero ==
    /\ ZeroIsUnset
    /\ \A i \in 1..Len(writers) :
          (LastTimeout(i).op # "" /\ writers[i].targets # <<>>) =>
              LET o == toQuery(Memory, i)
                  t == LastTimeout(i).args[1]
              IN /\ ~o.threw
                 /\ (t.k = "number" /\ t.n # 0) => TimeoutClause(o.val, t.n)
                 /\ (t = NaN \/ t = Num(0)) => ~Contains(o.val, kwTIMEOUT)
                 /\ t = NaN =>
                       QueryOf(Memory, i)
                          = QueryAlone(WithoutTimeouts(PathOf(i)))

\* timeout(0) was called on a writer that timeout(n), n not zero, had made,
\* and the result has been rendered: no TIMEOUT clause.
C9_Witness ==
    /\ result.op = "toQuery" /\ ~result.threw
    /\ calls[result.recv].op = "timeout"
    /\ calls[result.recv].args[1] = Num(0)
    /\ calls[result.recv].recv # 0
    /\ calls[calls[result.recv].recv].op = "timeout"
    /\ calls[calls[result.recv].recv].args[1].n # 0
    /\ ~Contains(result.text, kwTIMEOUT)

\* The text q has exactly one RETURN clause, and what follows RETURN is text
\* and then the end of q or the next clause.
ReturnClause(q, text) ==
    /\ Cardinality(Occ(q, kwRETURN)) = 1
    /\ LET from == (CHOOSE p \in Occ(q, kwRETURN) : TRUE) + Len(kwRETURN)
           rest == SubSeq(q, from, Len(q))
       IN /\ Len(rest) >= Len(text)
          /\ SubSeq(rest, 1, Len(text)) = text
          /\ \/ Len(rest) = Len(text)
             \/ Len(text) + 1 \in (Occ(rest, kwTIMEOUT) \cup Occ(rest, kwPARALLEL))

\* C10 (returnFields): returnFields(f1..fn) returns a writer with returnMode
\* 'fields' and returnFields f1..fn, in the order given and with duplicates
\* kept, whatever return mode the receiver had; its query (toQuery's
\* precondition given) has the one RETURN clause " RETURN f1, ..., fn".
C10_ReturnFields ==
    \A i \in 1..Len(writers) :
        calls[i].op = "returnFields" =>
            LET fields == [k \in 1..Len(calls[i].args) |-> calls[i].args[k].s]
            IN /\ writers[i].returnMode = Str(sFields)
               /\ arrays[writers[i].returnFields] = fields
               /\ writers[i].targets # <<>> =>
                     LET o == toQuery(Memory, i) IN
                     /\ ~o.threw
                     /\ ReturnClause(o.val, Listed(fields))

\* returnFields("name", "name") was called on a writer that return('none')
\* had made, and the result renders " RETURN name, name".
C10_Witness ==
    /\ result.op = "toQuery" /\ ~result.threw
    /\ calls[result.recv].op = "returnFields"
    /\ calls[result.recv].args = <<Str(sName), Str(sName)>>
    /\ calls[result.recv].recv # 0
    /\ calls[calls[result.recv].recv].op = "return"
    /\ calls[calls[result.recv].recv].args[1] = Str(sNone)
    /\ Contains(result.text, kwRETURN \o sName \o <<",", " ">> \o sName)
    /\ ~Contains(result.text, <<"N", "O", "N", "E">>)

\* The writers that return(mode) made.
ByReturn == { i \in 1..Len(writers) : calls[i].op = "return" }

\* C11 (return clears the fields), as claimed: return(mode) gives a writer
\* with returnMode = mode and an empty returnFields, also when the receiver
\* came from returnFields(...) with a non-empty list.
C11_AsClaimed ==
    \A i \in ByReturn :
        /\ writers[i].returnMode = calls[i].args[1]
        /\ arrays[writers[i].returnFields] = <<>>

\* C11, amended: return(mode) gives a writer with returnMode = mode whose
\* returnFields is the receiver's array, contents kept; the kept fields are
\* not rendered: the query (toQuery's precondition given) has the one clause
\* " RETURN <MODE>".
C11_ReturnKeepsFields ==
    \A i \in ByReturn :
        LET recv == calls[i].recv IN
        /\ writers[i].returnMode = calls[i].args[1]
        /\ writers[i].returnFields = writers[recv].returnFields
        /\ arrays[writers[i].returnFields] = arrays[writers[recv].returnFields]
        /\ writers[i].targets # <<>> =>
              LET o == toQuery(Memory, i) IN
              /\ ~o.threw
              /\ ReturnClause(o.val, toUpperCase(calls[i].args[1].s))

\* return('after') was called on a writer that returnFields("name", "age")
\* had made: the new writer still holds the two fields, and renders
\* " RETURN AFTER".
C11_Witness ==
    /\ result.op = "toQuery" /\ ~result.threw
    /\ result.recv \in ByReturn
    /\ calls[result.recv].args[1] = Str(sAfter)
    /\ calls[calls[result.recv].recv].op = "returnFields"
    /\ arrays[writers[result.recv].returnFields] = <<sName, sAge>>
    /\ Contains(result.text, kwRETURN \o <<"A", "F", "T", "E", "R">>)
    /\ ~Contains(result.text, sName)

\* The fields of a writer's state.
StateFields ==
    { "schema", "quantity", "targets", "where", "returnMode", "returnFields",
      "timeout", "parallel", "unrelate" }

\* The writers that configuration calls made.
Configured == { i \in 1..Len(writers) : calls[i].recv # 0 }

\* Field f of writer i, the returnFields array taken by its contents.
FieldValue(i, f) ==
    IF f = "returnFields" THEN arrays[writers[i].returnFields]
    ELSE writers[i][f]

\* The fields in which writer i differs from the receiver of the call that
\* made it.
Replaced(i) ==
    { f \in StateFields : FieldValue(i, f) # FieldValue(calls[i].recv, f) }

\* The fields a configuration operation sets.
Sets(op) ==
    CASE op \in {"with", "withSchema", "withAny"} -> {"schema"}
      [] op = "where" -> {"where"}
      [] op = "return" -> {"returnMode"}
      [] op = "returnFields" -> {"returnMode", "returnFields"}
      [] op = "timeout" -> {"timeout"}
      [] op = "parallel" -> {"parallel"}

\* C12 (one field replaced), as claimed: the writer every configuration
\* operation returns differs from the receiver in one field at most.
C12_AsClaimed ==
    \A i \in Configured : \E f \in StateFields : Replaced(i) \subseteq {f}

\* C12, amended: every configuration operation returns a new writer that
\* differs from the receiver in no field but the one the operation sets
\* (schema for with, withSchema and withAny, where for where, returnMode for
\* return, timeout for timeout, parallel for parallel), and returnFields
\* sets two, returnMode and returnFields; every other field is the
\* receiver's, the returnFields array being the receiver's own array.
C12_FrameOfCalls ==
    \A i \in Configured :
        /\ calls[i].recv < i
        /\ Replaced(i) \subseteq Sets(calls[i].op)
        /\ calls[i].op # "returnFields" =>
              /\ Cardinality(Replaced(i)) <= 1
              /\ writers[i].returnFields = writers[calls[i].recv].returnFields
        /\ calls[i].op = "returnFields" =>
              /\ writers[i].returnFields # writers[calls[i].recv].returnFields
              /\ writers[i].returnMode = Str(sFields)

\* timeout(t) made the second writer, replacing the timeout alone, and
\* returnFields made the third from it, replacing the return mode and the
\* field list and keeping the timeout.
C12_Witness ==
    /\ Len(writers) = 3
    /\ calls[2].op = "timeout" /\ calls[2].recv = 1
    /\ Replaced(2) = {"timeout"}
    /\ calls[3].op = "returnFields" /\ calls[3].recv = 2
    /\ Replaced(3) = {"returnMode", "returnFields"}
    /\ writers[3].timeout = writers[2].timeout

\* The writers whose chain of calls starts at delRelation.
OfRelation == { i \in 1..Len(writers) : FactoryOf(i) = "delRelation" }

\* The filter of a delRelation call c: "in = <from> AND out = <to>".
RelationFilter(c) ==
    <<"i", "n", " ", "=", " ">> \o c.args[2].s
        \o <<" ", "A", "N", "D", " ", "o", "u", "t", " ", "=", " ">>
        \o c.args[3].s

\* C13 (relation filter is fixed): every writer reached from delRelation(rel)
\* through configuration calls has unrelate true, rel's edge as targets and
\* as where text the filter of rel's from and to endpoints; its query
\* (toQuery's precondition given) has that filter as its one WHERE clause,
\* right after the targets.
C13_RelationFilterFixed ==
    \A i \in OfRelation :
        LET made == PathOf(i)[1]
            filter == RelationFilter(made)
        IN /\ writers[i].unrelate
           /\ writers[i].where = Str(filter)
           /\ writers[i].targets = made.args[1].s
           /\ writers[i].targets # <<>> =>
                 LET o == toQuery(Memory, i)
                     head == kwDELETE \o writers[i].targets \o kwWHERE
                                \o filter
                 IN /\ ~o.threw
                    /\ Len(o.val) >= Len(head)
                    /\ SubSeq(o.val, 1, Len(head)) = head
                    /\ Cardinality(Occ(o.val, kwWHERE)) = 1
                    /\ \/ Len(o.val) = Len(head)
                       \/ Len(head) + 1 \in
                            (Occ(o.val, kwRETURN) \cup Occ(o.val, kwTIMEOUT)
                                \cup Occ(o.val, kwPARALLEL))

\* A writer that two configuration calls made from a relation writer has
\* been rendered: WHERE and the filter of the relation, then RETURN.
C13_Witness ==
    /\ result.op = "toQuery" /\ ~result.threw
    /\ result.recv \in OfRelation
    /\ Len(PathOf(result.recv)) = 3
    /\ PathOf(result.recv)[3].op \in {"timeout", "returnFields", "return"}
    /\ Contains(result.text,
                kwWHERE \o <<"i", "n", " ", "=", " ">> \o sP1 \o sAnd
                    \o <<"o", "u", "t", " ", "=", " ">> \o sP2 \o kwRETURN)

\* The writer a factory made at the start of writer i's chain of calls.
RECURSIVE RootOf(_)
RootOf(i) == IF calls[i].recv = 0 THEN i ELSE RootOf(calls[i].recv)

\* The targets text the factory call c computes.
TargetsOf(c) ==
    CASE c.op = "del" ->
            Listed([k \in 1..Len(c.args) |-> useSurrealValueUnsafe(c.args[k])])
      [] c.op = "delRecord" ->
            IF c.args[2] = Undefined THEN c.args[1].s
            ELSE c.args[1].s \o <<":">> \o c.args[2].s
      [] c.op = "delRelation" -> c.args[1].s

\* C14 (targets are never empty), as claimed: every writer reached from del,
\* delRecord or delRelation through configuration calls has a non-empty
\* targets text, and toQuery() never fails on it.
C14_AsClaimed ==
    /\ \A i \in 1..Len(writers) :
          /\ writers[i].targets # <<>>
          /\ ~toQuery(Memory, i).threw
    /\ result.op = "toQuery" => ~result.threw

\* C14, amended: every writer reached from a factory through configuration
\* calls has the targets text the factory computed, which no configuration
\* call changes; toQuery() fails, with 'No targets specified', on exactly the
\* writers whose targets text is empty, and those are the writers reached
\* from del with one target of empty text and from delRelation with an empty
\* edge, both of which the factories accept.
C14_TargetsFromFactory ==
    /\ \A i \in 1..Len(writers) :
          LET made == calls[RootOf(i)]
              o == toQuery(Memory, i)
          IN /\ writers[i].targets = writers[RootOf(i)].targets
             /\ writers[i].targets = TargetsOf(made)
             /\ o.threw <=> writers[i].targets = <<>>
             /\ o.threw => (o.err = "Error" /\ o.val = <<>> /\ o.mem = Memory)
             /\ writers[i].targets = <<>> <=>
                   \/ /\ made.op = "del"
                      /\ Len(made.args) = 1
                      /\ useSurrealValueUnsafe(made.args[1]) = <<>>
                   \/ made.op = "delRelation" /\ made.args[1].s = <<>>
    /\ result.op = "toQuery" =>
          (result.threw <=> writers[result.recv].targets = <<>>)

\* del("") has returned a writer, toQuery() has just failed on a writer
\* configured from it, and another writer renders.
C14_Witness ==
    /\ result.op = "toQuery" /\ result.threw
    /\ calls[result.recv].recv # 0
    /\ FactoryOf(result.recv) = "del"
    /\ writers[RootOf(result.recv)].targets = <<>>
    /\ \E j \in 1..Len(writers) : ~toQuery(Memory, j).threw

\* The writers that where(text) made, text a string.
ByWhereText ==
    { i \in 1..Len(writers) :
        calls[i].op = "where" /\ calls[i].args[1].k = "string" }

\* The chain path without its where calls.
WithoutWheres(path) == SelectSeq(path, LAMBDA c : c.op # "where")

\* The text q has exactly one WHERE clause, right after head, and what
\* follows WHERE is text and then the end of q or the next clause.
WhereClause(q, head, text) ==
    /\ Occ(q, kwWHERE) = {Len(head) + 1}
    /\ LET rest == SubSeq(q, Len(head) + Len(kwWHERE) + 1, Len(q)) IN
       /\ Len(rest) >= Len(text)
       /\ SubSeq(rest, 1, Len(text)) = text
       /\ \/ Len(rest) = Len(text)
          \/ Len(text) + 1 \in (Occ(rest, kwRETURN) \cup Occ(rest, kwTIMEOUT)
                                  \cup Occ(rest, kwPARALLEL))

\* C15 (literal filter text), as claimed: where(text) on a writer that is no
\* relation writer gives a writer whose filter is text and whose query
\* (toQuery's precondition given) contains " WHERE <text>", for every string
\* text, the empty string included.
C15_AsClaimed ==
    \A i \in ByWhereText :
        /\ writers[i].where = calls[i].args[1]
        /\ writers[i].targets # <<>> =>
              LET o == toQuery(Memory, i) IN
              /\ ~o.threw
              /\ Contains(o.val, kwWHERE \o calls[i].args[1].s)

\* C15, amended: where(text) on a writer that is no relation writer gives a
\* writer whose filter is text, unchanged; for every non-empty text its query
\* (toQuery's precondition given) has the one clause " WHERE <text>" right
\* after the targets; for the empty text the query has no WHERE clause and is
\* what the chain renders with no where call at all.
C15_LiteralFilter ==
    \A i \in ByWhereText :
        LET text == calls[i].args[1].s IN
        /\ ~writers[calls[i].recv].unrelate
        /\ writers[i].where = Str(text)
        /\ writers[i].targets # <<>> =>
              LET o == toQuery(Memory, i) IN
              /\ ~o.threw
              /\ text # <<>> =>
                    WhereClause(o.val, kwDELETE \o writers[i].targets, text)
              /\ text = <<>> =>
                    /\ ~Contains(o.val, kwWHERE)
                    /\ Outcome(o) = QueryAlone(WithoutWheres(PathOf(i)))

\* where("name = 'Bob'") made the second writer, which renders the text as
\* given, and where("") made the third from it, which has been rendered: no
\* WHERE clause.
C15_Witness ==
    /\ Len(writers) = 3
    /\ calls[2].op = "where" /\ calls[2].recv = 1
    /\ calls[2].args[1] = Str(sIsBob)
    /\ Contains(toQuery(Memory, 2).val, kwWHERE \o sIsBob \o kwRETURN)
    /\ calls[3].op = "where" /\ calls[3].recv = 2
    /\ calls[3].args[1] = Str(<<>>)
    /\ result.op = "toQuery" /\ result.recv = 3 /\ ~result.threw
    /\ ~Contains(result.text, kwWHERE)

\* The state at address ref of memory mem, its returnFields array taken by
\* its contents.
StateContent(mem, ref) ==
    [mem.writers[ref] EXCEPT !.returnFields = mem.arrays[@]]

\* C16 (the _state snapshot cannot change a writer), as claimed: whatever the
\* caller writes through the objects _state returns, to their fields or to
\* the returnFields array they expose, every writer keeps the state its own
\* chain of calls gave it and renders what that chain renders.
C16_SnapshotSafe ==
    \A i \in 1..Len(writers) :
        LET alone == Alone(PathOf(i)) IN
        /\ StateContent(Memory, i) = StateContent(alone.mem, alone.val)
        /\ QueryOf(Memory, i) = QueryOf(alone.mem, alone.val)

\* The configuration an operation sets.
Setting(op) ==
    CASE op \in {"del", "delRecord", "delRelation"} -> "targets"
      [] op \in {"with", "withSchema", "withAny"} -> "schema"
      [] op = "where" -> "where"
      [] op \in {"return", "returnFields"} -> "return"
      [] op = "timeout" -> "timeout"
      [] op = "parallel" -> "parallel"

\* The calls of path from the k-th on, each call left out that a later call
\* of path sets the same configuration as.
RECURSIVE Latest(_, _)
Latest(path, k) ==
    IF k > Len(path) THEN <<>>
    ELSE (IF \E m \in (k + 1)..Len(path) :
                Setting(path[m].op) = Setting(path[k].op)
          THEN <<>> ELSE <<path[k]>>) \o Latest(path, k + 1)

\* What writer i renders after where(a) and then where(b), and after
\* where(b) alone.
WhereTwice(i, a, b) ==
    LET first == where(Memory, i, a)
        both == where(first.mem, first.val, b)
        once == where(Memory, i, b)
    IN <<QueryOf(both.mem, both.val), QueryOf(once.mem, once.val)>>

TimeoutTwice(i, a, b) ==
    LET first == timeout(Memory, i, a)
        both == timeout(first.mem, first.val, b)
        once == timeout(Memory, i, b)
    IN <<QueryOf(both.mem, both.val), QueryOf(once.mem, once.val)>>

\* return(mode) for a mode, returnFields(...) for a list of fields.
SetReturn(mem, this, x) ==
    IF x \in ReturnModes THEN return(mem, this, x)
    ELSE returnFields(mem, this, x)

ReturnTwice(i, a, b) ==
    LET first == SetReturn(Memory, i, a)
        both == SetReturn(first.mem, first.val, b)
        once == SetReturn(Memory, i, b)
    IN <<QueryOf(both.mem, both.val), QueryOf(once.mem, once.val)>>

ParallelTwice(i) ==
    LET first == parallel(Memory, i)
        both == parallel(first.mem, first.val)
    IN <<QueryOf(both.mem, both.val), QueryOf(first.mem, first.val)>>

\* The text where(w) stores.
FilterText(w) == IF w.k = "object" THEN parseWhereClause(w) ELSE w.s

\* C17 (last write wins): a writer renders what its chain renders with only
\* the latest call for each configuration left in; and from any writer (taken
\* as a call returns it) where(a) then where(b), the writer being no relation
\* writer, renders as where(b) alone does, with b as the one filter, not
\* combined with a; timeout(a) then timeout(b) renders as timeout(b) alone;
\* of return(mode) and returnFields(...) called one after the other, the
\* later decides the RETURN clause; parallel() twice renders as parallel()
\* once.
C17_LastWriteWins ==
    /\ \A i \in 1..Len(writers) :
          QueryOf(Memory, i) = QueryAlone(Latest(PathOf(i), 1))
    /\ \A i \in JustMade :
          /\ ~writers[i].unrelate =>
                \A a, b \in WhereArgs :
                    LET two == WhereTwice(i, a, b) IN
                    /\ two[1] = two[2]
                    /\ (~two[1][1] /\ FilterText(b) # <<>>) =>
                          WhereClause(two[1][3],
                                      kwDELETE \o writers[i].targets,
                                      FilterText(b))
          /\ \A a, b \in Timeouts :
                LET two == TimeoutTwice(i, a, b) IN two[1] = two[2]
          /\ \A a, b \in ReturnModes \cup FieldLists :
                LET two == ReturnTwice(i, a, b) IN
                /\ two[1] = two[2]
                /\ ~two[1][1] =>
                      ReturnClause(two[1][3],
                                   IF b \in ReturnModes THEN toUpperCase(b.s)
                                   ELSE Listed(b))
          /\ LET two == ParallelTwice(i) IN two[1] = two[2]

\* where("age > 18") and then where("name = 'Bob'") were called, and the
\* last writer has been rendered: WHERE name = 'Bob', and no "age > 18".
C17_Witness ==
    /\ Len(writers) = 3
    /\ calls[2].op = "where" /\ calls[2].recv = 1
    /\ calls[2].args[1] = Str(sAdult)
    /\ calls[3].op = "where" /\ calls[3].recv = 2
    /\ calls[3].args[1] = Str(sIsBob)
    /\ result.op = "toQuery" /\ result.recv = 3 /\ ~result.threw
    /\ Contains(result.text, kwWHERE \o sIsBob \o kwRETURN)
    /\ ~Contains(result.text, sAdult)

\* What the text q, which has one RETURN clause, names in it: the text from
\* after " RETURN " to the next clause or the end of q.
ReturnText(q) ==
    LET from == (CHOOSE p \in Occ(q, kwRETURN) : TRUE) + Len(kwRETURN)
        stops == { p \in Occ(q, kwTIMEOUT) \cup Occ(q, kwPARALLEL) : p >= from }
                    \cup {Len(q) + 1}
        stop == CHOOSE p \in stops : \A x \in stops : p <= x
    IN SubSeq(q, from, stop - 1)

\* The return modes, as a RETURN clause names them.
ModeNames == { toUpperCase(mode.s) : mode \in ReturnModes }

\* The latest return or returnFields call of writer i's chain.
LastReturn(i) == Last(PathOf(i), {"return", "returnFields"})

\* C18 (the RETURN clause is never empty), as claimed: the query of every
\* writer reached from the factories (toQuery's precondition given) has
\* exactly one RETURN clause, naming an upper-cased return mode or the
\* writer's fields, at least one.
C18_AsClaimed ==
    \A i \in 1..Len(writers) :
        writers[i].targets # <<>> =>
            LET o == toQuery(Memory, i) IN
            /\ ~o.threw
            /\ Cardinality(Occ(o.val, kwRETURN)) = 1
            /\ ReturnText(o.val) # <<>>
            /\ \/ ReturnText(o.val) \in ModeNames
               \/ /\ arrays[writers[i].returnFields] # <<>>
                  /\ ReturnText(o.val) = Listed(arrays[writers[i].returnFields])

\* C18, amended: the query of every writer reached from the factories
\* (toQuery's precondition given) has exactly one RETURN clause, naming the
\* upper-cased return mode or, for return mode 'fields', the writer's fields
\* joined by ", "; the clause names nothing exactly when the latest of the
\* chain's return and returnFields calls is returnFields() with no field.
C18_ReturnClause ==
    \A i \in 1..Len(writers) :
        writers[i].targets # <<>> =>
            LET o == toQuery(Memory, i)
                fields == arrays[writers[i].returnFields]
            IN /\ ~o.threw
               /\ Cardinality(Occ(o.val, kwRETURN)) = 1
               /\ writers[i].returnMode # Str(sFields) =>
                     /\ ReturnText(o.val) = toUpperCase(writers[i].returnMode.s)
                     /\ ReturnText(o.val) \in ModeNames
               /\ writers[i].returnMode = Str(sFields) =>
                     ReturnText(o.val) = Listed(fields)
               /\ ReturnText(o.val) = <<>> <=>
                     /\ LastReturn(i).op = "returnFields"
                     /\ LastReturn(i).args = <<>>

\* returnFields() with no field and then timeout(t), t not zero, were
\* called, and the last writer has been rendered: " RETURN " and right after
\* it " TIMEOUT ".
C18_Witness ==
    /\ result.op = "toQuery" /\ ~result.threw
    /\ calls[result.recv].op = "timeout"
    /\ calls[result.recv].recv # 0
    /\ calls[calls[result.recv].recv].op = "returnFields"
    /\ calls[calls[result.recv].recv].args = <<>>
    /\ Contains(result.text, kwRETURN \o kwTIMEOUT)
    /\ ReturnText(result.text) = <<>>

====
